---- MODULE Spec2Model ----
(***************************************************************************)
(* Pedestrian costing of valhalla/sif (src/src/sif/pedestriancost.cc).     *)
(*                                                                         *)
(* The profile object (class PedestrianCost) is built from a settings      *)
(* object and then queried by searches: Allowed / AllowedReverse,          *)
(* EdgeCost, TransitionCost / TransitionCostReverse, AStarCostFactor and   *)
(* the small accessors.  The state is the profile's fields, the settings   *)
(* object it was built from, and the call a search has in progress         *)
(* (operation, arguments, returned value).                                 *)
(*                                                                         *)
(* float values are modelled as exact reduced fractions [n, d] (d > 0);    *)
(* rounding of IEEE single precision is not modelled.  uint32_t values are *)
(* integers; TLC's integers are 32 bit signed, so the wrap of a negative   *)
(* literal read as unsigned is taken modulo kUInt32Modulus (see there).    *)
(***************************************************************************)
EXTENDS Integers, Sequences, FiniteSets, TLC

VARIABLES pt, profile, initial, ret, label

vars == <<pt, profile, initial, ret, label>>

(***************************************************************************)
(* float arithmetic: exact fractions                                       *)
(***************************************************************************)
Abs(x) == IF x < 0 THEN -x ELSE x

RECURSIVE GCD(_, _)
GCD(a, b) == IF b = 0 THEN a ELSE GCD(b, a % b)

\* The fraction n/d (d # 0) in lowest terms with a positive denominator.
Q(n, d) ==
    LET s == IF d < 0 THEN -1 ELSE 1
        g == GCD(Abs(n), Abs(d))
    IN  [n |-> (s * n) \div g, d |-> (s * d) \div g]

FromInt(i) == [n |-> i, d |-> 1]
Zero == FromInt(0)
One == FromInt(1)

Add(a, b) == Q(a.n * b.d + b.n * a.d, a.d * b.d)
Sub(a, b) == Q(a.n * b.d - b.n * a.d, a.d * b.d)
Mul(a, b) == Q(a.n * b.n, a.d * b.d)
Div(a, b) == Q(a.n * b.d, a.d * b.n)
Lt(a, b) == a.n * b.d < b.n * a.d
Le(a, b) == a.n * b.d <= b.n * a.d

\* Truncation toward zero, as a float to integer conversion does.
Trunc(a) == IF a.n >= 0 THEN a.n \div a.d ELSE -((-a.n) \div a.d)

(***************************************************************************)
(* Defaults, limits and valid ranges (anonymous namespace of the source)   *)
(***************************************************************************)
kSecPerHour == 3600

kMaxDistanceFoot == 100000
kMaxDistanceWheelchair == 10000
kDefaultSpeedFoot == Q(51, 10)
kDefaultSpeedWheelchair == FromInt(4)
kDefaultStepPenaltyFoot == FromInt(30)
kDefaultStepPenaltyWheelchair == FromInt(600)
kDefaultMaxGradeFoot == 90
kDefaultMaxGradeWheelchair == 12
kModeWeight == Q(3, 2)
kDefaultManeuverPenalty == FromInt(5)
kDefaultGatePenalty == FromInt(10)
kDefaultWalkwayFactor == Q(9, 10)
kDefaultSideWalkFactor == Q(95, 100)
kDefaultAlleyFactor == FromInt(2)
kDefaultDrivewayFactor == FromInt(5)
kDefaultFerryCost == FromInt(300)
kDefaultCountryCrossingCost == FromInt(600)
kDefaultCountryCrossingPenalty == FromInt(0)
kDefaultUseFerry == FromInt(1)
kTransitStartEndMaxDistance == 2415
kTransitTransferMaxDistance == 805
kRoundaboutFactor == FromInt(5)
kMaxFerryPenalty == FromInt(8 * 3600)
kMinPedestrianSpeed == Q(1, 2)
kMaxPedestrianSpeed == FromInt(25)
kCrossingCosts == <<0, 0, 1, 1, 2, 3, 5, 15>>
kMaxSeconds == FromInt(12 * kSecPerHour)
kMaxFactor == FromInt(20)

\* ranged_default_t<float>{min, def, max}
Range(lo, def, hi) == [min |-> lo, def |-> def, max |-> hi]

kMaxDistanceWheelchairRange ==
    Range(Zero, FromInt(kMaxDistanceWheelchair), FromInt(kMaxDistanceWheelchair))
kMaxDistanceFootRange ==
    Range(Zero, FromInt(kMaxDistanceFoot), FromInt(kMaxDistanceFoot))
kSpeedWheelchairRange ==
    Range(kMinPedestrianSpeed, kDefaultSpeedWheelchair, kMaxPedestrianSpeed)
kSpeedFootRange == Range(kMinPedestrianSpeed, kDefaultSpeedFoot, kMaxPedestrianSpeed)
kStepPenaltyWheelchairRange == Range(Zero, kDefaultStepPenaltyWheelchair, kMaxSeconds)
kStepPenaltyFootRange == Range(Zero, kDefaultStepPenaltyFoot, kMaxSeconds)
kMaxGradeWheelchairRange ==
    Range(Zero, FromInt(kDefaultMaxGradeWheelchair), FromInt(kMaxDistanceWheelchair))
kMaxGradeFootRange ==
    Range(Zero, FromInt(kDefaultMaxGradeFoot), FromInt(kMaxDistanceFoot))
kModeWeightRange == Range(Zero, kModeWeight, kMaxFactor)
kManeuverPenaltyRange == Range(Zero, kDefaultManeuverPenalty, kMaxSeconds)
kGatePenaltyRange == Range(Zero, kDefaultGatePenalty, kMaxSeconds)
kWalkwayFactorRange == Range(Zero, kDefaultWalkwayFactor, kMaxFactor)
kSideWalkFactorRange == Range(Zero, kDefaultSideWalkFactor, kMaxFactor)
kAlleyFactorRange == Range(Zero, kDefaultAlleyFactor, kMaxFactor)
kDrivewayFactorRange == Range(Zero, kDefaultDrivewayFactor, kMaxFactor)
kFerryCostRange == Range(Zero, kDefaultFerryCost, kMaxSeconds)
kCountryCrossingCostRange == Range(Zero, kDefaultCountryCrossingCost, kMaxSeconds)
kCountryCrossingPenaltyRange == Range(Zero, kDefaultCountryCrossingPenalty, kMaxSeconds)
kUseFerryRange == Range(Zero, kDefaultUseFerry, One)
kTransitStartEndMaxDistanceRange ==
    Range(Zero, FromInt(kTransitStartEndMaxDistance), FromInt(kTransitStartEndMaxDistance))
kTransitTransferMaxDistanceRange ==
    Range(Zero, FromInt(kTransitTransferMaxDistance), FromInt(kTransitTransferMaxDistance))

\* Types used by the source but declared in headers: access bits as a set of
\* mode names (a mask), Surface as its ordinal (higher is worse).
kPedestrianAccess == {"pedestrian"}
kWheelchairAccess == {"wheelchair"}
kCompacted == 3
kPath == 6

\* uint32_t arithmetic is modulo 2^32.  TLC's integers end at 2^31 - 1, so
\* the modulus is scaled to 2^30: like 2^32 it lies above every range
\* maximum and every distance of the model, which is all the code compares it to.
kUInt32Modulus == 1073741824

(***************************************************************************)
(* The settings object (boost::property_tree::ptree)                       *)
(*                                                                         *)
(* As in make_pedestriancost_from_json: a type and at most one numeric     *)
(* key.  key = "" is the object with only a type.  The value is the number *)
(* written in the JSON text.                                               *)
(***************************************************************************)
\* "bicycle" stands for a type string the constructor does not recognize.
Types == {"foot", "wheelchair", "segway", "bicycle", "absent"}

FloatKeys ==
    {"walking_speed", "step_penalty", "max_grade", "mode_weight", "maneuver_penalty",
     "gate_penalty", "walkway_factor", "sidewalk_factor", "alley_factor",
     "driveway_factor", "ferry_cost", "country_crossing_cost",
     "country_crossing_penalty", "use_ferry"}
UIntKeys ==
    {"max_distance", "transit_start_end_max_distance", "transit_transfer_max_distance"}
Keys == FloatKeys \cup UIntKeys

\* Input values per key: below the minimum, inside the range, above the maximum
\* and, for the keys read as integers, a fractional one.
Values(key) ==
    CASE key = "max_distance" -> {FromInt(-5), FromInt(200), FromInt(150000), Q(15, 2)}
      [] key = "walking_speed" -> {FromInt(-1), Q(9, 2), FromInt(30)}
      [] key = "step_penalty" -> {FromInt(-10), FromInt(60), FromInt(50000)}
      [] key = "max_grade" -> {FromInt(-5), Q(25, 2), FromInt(150000)}
      [] key = "mode_weight" -> {FromInt(-1), FromInt(2), FromInt(25)}
      [] key = "maneuver_penalty" -> {FromInt(-5), FromInt(10), FromInt(50000)}
      [] key = "gate_penalty" -> {FromInt(-5), FromInt(20), FromInt(50000)}
      [] key = "walkway_factor" -> {FromInt(-1), Q(1, 2), Q(3, 2), FromInt(25)}
      [] key = "sidewalk_factor" -> {FromInt(-1), Q(1, 2), FromInt(25)}
      [] key = "alley_factor" -> {FromInt(-1), FromInt(3), FromInt(25)}
      [] key = "driveway_factor" -> {FromInt(-1), FromInt(3), FromInt(25)}
      [] key = "ferry_cost" -> {FromInt(-100), FromInt(100), FromInt(50000)}
      [] key = "country_crossing_cost" -> {FromInt(-100), FromInt(100), FromInt(50000)}
      [] key = "country_crossing_penalty" -> {FromInt(-100), FromInt(100), FromInt(50000)}
      [] key = "use_ferry" -> {FromInt(-1), Zero, Q(1, 4), Q(1, 2), FromInt(2)}
      [] key = "transit_start_end_max_distance" ->
            {FromInt(-5), FromInt(100), FromInt(5000), Q(15, 2)}
      [] key = "transit_transfer_max_distance" ->
            {FromInt(-5), FromInt(100), FromInt(5000), Q(15, 2)}

\* The keys whose default and range depend on the type.
TypeKeys == {"max_distance", "walking_speed", "step_penalty", "max_grade"}

\* As the parameter test builds them: every key with type foot, the keys that
\* depend on the type with type wheelchair as well.
Settings ==
    [type : Types, key : {""}, val : {Zero}]
    \cup UNION {[type : {"foot"}, key : {k}, val : Values(k)] : k \in Keys}
    \cup UNION {[type : {"wheelchair"}, key : {k}, val : Values(k)] : k \in TypeKeys}

\* pt.get<float>(key, def): the number if the key is present, else the default.
GetFloat(p, key, def) == IF p.key = key THEN p.val ELSE def

\* What a get<uint32_t> that cannot deliver a value would leave behind: the
\* marker of ptree_bad_data, no value of the type.  The gets of the constructor
\* all carry a default.
BadData == 0 - 1

\* Variant: pt.get<uint32_t>(key) without a usable default, which raises
\* ptree_bad_data when the text does not translate.
GetUInt32_Throwing(p, key, def) ==
    IF p.key # key THEN def
    ELSE IF p.val.d # 1 THEN BadData
    ELSE p.val.n % kUInt32Modulus

\* pt.get<uint32_t>(key, def): the text is read as an unsigned integer.  A
\* negative integer literal is negated modulo the width; text with a fraction
\* leaves characters unread, the translation fails and the default is returned.
GetUInt32(p, key, def) ==
    IF p.key # key THEN def
    ELSE IF p.val.d # 1 THEN def
    ELSE p.val.n % kUInt32Modulus

\* Variant: the type read with the default "wheelchair".
GetType_DefaultWheelchair(p) == IF p.type = "absent" THEN "wheelchair" ELSE p.type

\* pt.get<std::string>("type", "foot")
GetType(p) == IF p.type = "absent" THEN "foot" ELSE p.type

(***************************************************************************)
(* PedestrianCost::PedestrianCost                                          *)
(***************************************************************************)
\* A float converted to uint32_t.  The conversion truncates; for a value that
\* truncates below zero it is undefined, and the builds in use either wrap
\* modulo the width or saturate at zero: u names which.
UBOutcomes == {"wrap", "saturate"}

ToUInt32(f, u) ==
    IF Trunc(f) >= 0 THEN Trunc(f) % kUInt32Modulus
    ELSE IF u = "wrap" THEN Trunc(f) % kUInt32Modulus
    ELSE 0

\* Lines 385-399: ferry penalty and ferry weight from use_ferry_.
FerryPenalty(use_ferry) ==
    IF Lt(use_ferry, Q(1, 2))
    THEN FromInt(ToUInt32(Mul(kMaxFerryPenalty, Sub(One, Mul(use_ferry, FromInt(2)))),
                          "wrap"))
    ELSE Zero

\* Variant: a ferry weight whose upper branch is 1 - use_ferry / 2.
FerryWeight_Gap(use_ferry) ==
    IF Lt(use_ferry, Q(1, 2))
    THEN Sub(FromInt(10), Mul(use_ferry, FromInt(18)))
    ELSE Sub(One, Mul(use_ferry, Q(1, 2)))

FerryWeight(use_ferry) ==
    IF Lt(use_ferry, Q(1, 2))
    THEN Sub(FromInt(10), Mul(use_ferry, FromInt(18)))
    ELSE Sub(Q(3, 2), use_ferry)

\* Line 402.
SpeedFactor(speed) == Div(Q(kSecPerHour, 1000), speed)

\* The fields after the constructor body has run on settings p.
Fields(p, u) ==
    LET type == GetType(p)
        wheelchair == (type = "wheelchair")
        speed == IF wheelchair
                 THEN GetFloat(p, "walking_speed", kDefaultSpeedWheelchair)
                 ELSE GetFloat(p, "walking_speed", kDefaultSpeedFoot)
        use_ferry == GetFloat(p, "use_ferry", kDefaultUseFerry)
    IN  [ allow_transit_connections_ |-> FALSE,
          type_ |-> IF type = "wheelchair" THEN "kWheelchair"
                    ELSE IF type = "segway" THEN "kSegway" ELSE "kFoot",
          access_mask_ |-> IF wheelchair THEN kWheelchairAccess ELSE kPedestrianAccess,
          max_distance_ |-> IF wheelchair
                            THEN GetUInt32(p, "max_distance", kMaxDistanceWheelchair)
                            ELSE GetUInt32(p, "max_distance", kMaxDistanceFoot),
          speed_ |-> speed,
          step_penalty_ |-> IF wheelchair
                            THEN GetFloat(p, "step_penalty", kDefaultStepPenaltyWheelchair)
                            ELSE GetFloat(p, "step_penalty", kDefaultStepPenaltyFoot),
          max_grade_ |-> IF wheelchair
                         THEN ToUInt32(GetFloat(p, "max_grade",
                                                FromInt(kDefaultMaxGradeWheelchair)), u)
                         ELSE ToUInt32(GetFloat(p, "max_grade",
                                                FromInt(kDefaultMaxGradeFoot)), u),
          minimal_allowed_surface_ |-> IF wheelchair THEN kCompacted ELSE kPath,
          mode_weight_ |-> GetFloat(p, "mode_weight", kModeWeight),
          maneuver_penalty_ |-> GetFloat(p, "maneuver_penalty", kDefaultManeuverPenalty),
          gate_penalty_ |-> GetFloat(p, "gate_penalty", kDefaultGatePenalty),
          walkway_factor_ |-> GetFloat(p, "walkway_factor", kDefaultWalkwayFactor),
          sidewalk_factor_ |-> GetFloat(p, "sidewalk_factor", kDefaultSideWalkFactor),
          alley_factor_ |-> GetFloat(p, "alley_factor", kDefaultAlleyFactor),
          driveway_factor_ |-> GetFloat(p, "driveway_factor", kDefaultDrivewayFactor),
          ferry_cost_ |-> GetFloat(p, "ferry_cost", kDefaultFerryCost),
          country_crossing_cost_ |->
              GetFloat(p, "country_crossing_cost", kDefaultCountryCrossingCost),
          country_crossing_penalty_ |->
              GetFloat(p, "country_crossing_penalty", kDefaultCountryCrossingPenalty),
          transit_start_end_max_distance_ |->
              GetUInt32(p, "transit_start_end_max_distance", kTransitStartEndMaxDistance),
          transit_transfer_max_distance_ |->
              GetUInt32(p, "transit_transfer_max_distance", kTransitTransferMaxDistance),
          use_ferry_ |-> use_ferry,
          ferry_penalty_ |-> FerryPenalty(use_ferry),
          ferry_weight_ |-> FerryWeight(use_ferry),
          speedfactor_ |-> SpeedFactor(speed) ]

\* The outcome of new PedestrianCost(p): the object, or the exception a get
\* without a value would raise.
PedestrianCost(p, u) ==
    LET f == Fields(p, u)
    IN  IF BadData \in {f.max_distance_, f.transit_start_end_max_distance_,
                        f.transit_transfer_max_distance_}
        THEN [outcome |-> "exception"]
        ELSE [outcome |-> "constructed"] @@ f

(***************************************************************************)
(* Arguments of the calls: the attributes each operation reads             *)
(***************************************************************************)
EdgeLength == 100

AccessMasks ==
    {{"auto"}, {"auto", "pedestrian"}, {"auto", "wheelchair"},
     {"auto", "pedestrian", "wheelchair"}}
Surfaces == {kCompacted, kCompacted + 1, kPath, kPath + 1}
PathDistances == {0, EdgeLength, EdgeLength + 1}
EdgeIds == {0, 1}

\* The caller's avoid list (DynamicCost::user_avoid_edges_).
user_avoid_edges == {1}
IsUserAvoidEdge(edgeid) == edgeid \in user_avoid_edges

\* Edges as Allowed and AllowedReverse read them.
AccessEdges ==
    [forwardaccess : AccessMasks, surface : Surfaces, is_shortcut : BOOLEAN,
     use : {"kRoad", "kTransitConnection"}, length : {EdgeLength}]

\* Edges as EdgeCost reads them; speed is the speed stored on the edge (km/h).
CostEdges ==
    [use : {"kRoad", "kFootway", "kAlley", "kDriveway", "kSidewalk", "kSteps"},
     roundabout : BOOLEAN, length : {0, EdgeLength}, speed : {40}]
    \cup [use : {"kFerry"}, roundabout : BOOLEAN, length : {0, EdgeLength},
          speed : {10, 40}]

\* Edges as the transition costs read them.  edge_to_right, edge_to_left and
\* stopimpact are the values at the predecessor's local index, name_consistency
\* (on the node) the value for that index and the edge's own.
StopImpacts == 0 .. 7
TransitionEdges ==
    {e \in [use : {"kRoad", "kSteps", "kFerry"}, link : BOOLEAN,
            edge_to_right : BOOLEAN, edge_to_left : BOOLEAN, stopimpact : StopImpacts] :
        (e.edge_to_right /\ e.edge_to_left) \/ e.stopimpact = 7}
Nodes ==
    [type : {"kStreetIntersection", "kGate", "kBorderControl"},
     name_consistency : BOOLEAN]
PredUses == {"kRoad", "kFerry"}

(***************************************************************************)
(* The operations, as functions of the profile p and their arguments       *)
(***************************************************************************)
\* Variant: the budget test with >= for >.
Allowed_BudgetOffByOne(p, edge, pred, edgeid) ==
    IF \/ edge.forwardaccess \cap p.access_mask_ = {}
       \/ edge.surface > p.minimal_allowed_surface_
       \/ edge.is_shortcut
       \/ IsUserAvoidEdge(edgeid)
       \/ pred + edge.length >= p.max_distance_
    THEN FALSE
    ELSE IF ~p.allow_transit_connections_ /\ edge.use = "kTransitConnection"
    THEN FALSE
    ELSE TRUE

\* Variant: the budget tested against the predecessor's distance alone.
Allowed_PredOnly(p, edge, pred, edgeid) ==
    IF \/ edge.forwardaccess \cap p.access_mask_ = {}
       \/ edge.surface > p.minimal_allowed_surface_
       \/ edge.is_shortcut
       \/ IsUserAvoidEdge(edgeid)
       \/ pred > p.max_distance_
    THEN FALSE
    ELSE IF ~p.allow_transit_connections_ /\ edge.use = "kTransitConnection"
    THEN FALSE
    ELSE TRUE

\* Lines 440-459.  pred is the predecessor label's path_distance.
Allowed(p, edge, pred, edgeid) ==
    IF \/ edge.forwardaccess \cap p.access_mask_ = {}
       \/ edge.surface > p.minimal_allowed_surface_
       \/ edge.is_shortcut
       \/ IsUserAvoidEdge(edgeid)
       \/ pred + edge.length > p.max_distance_
    THEN FALSE
    ELSE IF ~p.allow_transit_connections_ /\ edge.use = "kTransitConnection"
    THEN FALSE
    ELSE TRUE

\* Variant: transit connections treated as in the forward predicate.
AllowedReverse_HonoursSwitch(p, pred, opp_edge, opp_edgeid) ==
    IF \/ opp_edge.forwardaccess \cap p.access_mask_ = {}
       \/ opp_edge.surface > p.minimal_allowed_surface_
       \/ opp_edge.is_shortcut
       \/ IsUserAvoidEdge(opp_edgeid)
       \/ (~p.allow_transit_connections_ /\ opp_edge.use = "kTransitConnection")
    THEN FALSE
    ELSE TRUE

\* Lines 463-481.  The parameter edge is never read and is left out; pred (the
\* predecessor label's path_distance) is passed and not read.
AllowedReverse(p, pred, opp_edge, opp_edgeid) ==
    IF \/ opp_edge.forwardaccess \cap p.access_mask_ = {}
       \/ opp_edge.surface > p.minimal_allowed_surface_
       \/ opp_edge.is_shortcut
       \/ IsUserAvoidEdge(opp_edgeid)
       \/ opp_edge.use = "kTransitConnection"
    THEN FALSE
    ELSE TRUE

Cost(c, t) == [cost |-> c, secs |-> t]

\* Lines 490-514.
\* Variants of EdgeCost: a ferry edge timed at walking speed, and the roundabout
\* flag tested before the edge's use.
EdgeCost_FerryWalked(p, edge) ==
    LET sec == Mul(FromInt(edge.length), p.speedfactor_)
    IN  IF edge.use = "kFerry" THEN Cost(Mul(sec, p.ferry_weight_), sec)
        ELSE IF edge.use = "kFootway" THEN Cost(Mul(sec, p.walkway_factor_), sec)
        ELSE IF edge.use = "kAlley" THEN Cost(Mul(sec, p.alley_factor_), sec)
        ELSE IF edge.use = "kDriveway" THEN Cost(Mul(sec, p.driveway_factor_), sec)
        ELSE IF edge.use = "kSidewalk" THEN Cost(Mul(sec, p.sidewalk_factor_), sec)
        ELSE IF edge.roundabout THEN Cost(Mul(sec, kRoundaboutFactor), sec)
        ELSE Cost(sec, sec)
EdgeCost_RoundaboutFirst(p, edge) ==
    IF edge.use = "kFerry"
    THEN LET sec == Div(Mul(FromInt(edge.length), Q(kSecPerHour, 1000)),
                        FromInt(edge.speed))
         IN  Cost(Mul(sec, p.ferry_weight_), sec)
    ELSE LET sec == Mul(FromInt(edge.length), p.speedfactor_)
         IN  IF edge.roundabout THEN Cost(Mul(sec, kRoundaboutFactor), sec)
             ELSE IF edge.use = "kFootway" THEN Cost(Mul(sec, p.walkway_factor_), sec)
             ELSE IF edge.use = "kAlley" THEN Cost(Mul(sec, p.alley_factor_), sec)
             ELSE IF edge.use = "kDriveway" THEN Cost(Mul(sec, p.driveway_factor_), sec)
             ELSE IF edge.use = "kSidewalk" THEN Cost(Mul(sec, p.sidewalk_factor_), sec)
             ELSE Cost(sec, sec)

EdgeCost(p, edge) ==
    IF edge.use = "kFerry"
    THEN LET sec == Div(Mul(FromInt(edge.length), Q(kSecPerHour, 1000)),
                        FromInt(edge.speed))
         IN  Cost(Mul(sec, p.ferry_weight_), sec)
    ELSE LET sec == Mul(FromInt(edge.length), p.speedfactor_)
         IN  IF edge.use = "kFootway" THEN Cost(Mul(sec, p.walkway_factor_), sec)
             ELSE IF edge.use = "kAlley" THEN Cost(Mul(sec, p.alley_factor_), sec)
             ELSE IF edge.use = "kDriveway" THEN Cost(Mul(sec, p.driveway_factor_), sec)
             ELSE IF edge.use = "kSidewalk" THEN Cost(Mul(sec, p.sidewalk_factor_), sec)
             ELSE IF edge.roundabout THEN Cost(Mul(sec, kRoundaboutFactor), sec)
             ELSE Cost(sec, sec)

\* Variants of TransitionCost: with steps_first false the steps case comes after
\* the node's penalties (and adds them); with border_time false the border
\* crossing adds its cost to the penalty and no time.
TransitionCostVariant(p, edge, node, pred_use, steps_first, border_time) ==
    LET border == node.type = "kBorderControl"
        s1 == IF border /\ border_time THEN p.country_crossing_cost_ ELSE Zero
        p0 == IF border THEN p.country_crossing_penalty_
              ELSE IF node.type = "kGate" THEN p.gate_penalty_ ELSE Zero
        p1 == IF border /\ ~border_time THEN Add(p0, p.country_crossing_cost_) ELSE p0
        entry == pred_use # "kFerry" /\ edge.use = "kFerry"
        s2 == IF entry THEN Add(s1, p.ferry_cost_) ELSE s1
        p2 == IF entry THEN Add(p1, p.ferry_penalty_) ELSE p1
        p3 == IF ~edge.link /\ ~node.name_consistency
              THEN Add(p2, p.maneuver_penalty_) ELSE p2
        s3 == IF edge.edge_to_right /\ edge.edge_to_left
              THEN Add(s2, FromInt(kCrossingCosts[edge.stopimpact + 1])) ELSE s2
    IN  IF edge.use = "kSteps"
        THEN IF steps_first THEN Cost(p.step_penalty_, Zero)
             ELSE Cost(Add(p.step_penalty_, Add(s1, p1)), s1)
        ELSE Cost(Add(s3, p3), s3)

\* Variant: the ferry entry charged whatever the predecessor's use.
TransitionCost_EveryFerry(p, edge, node, pred_use) ==
    TransitionCostVariant(p, edge, node, "kRoad", TRUE, TRUE)

TransitionCost_BorderNoTime(p, edge, node, pred_use) ==
    TransitionCostVariant(p, edge, node, pred_use, TRUE, FALSE)

\* Lines 517-552.  pred_use is pred.use().
TransitionCost(p, edge, node, pred_use) ==
    IF edge.use = "kSteps" THEN Cost(p.step_penalty_, Zero)
    ELSE
    LET s1 == IF node.type = "kBorderControl" THEN p.country_crossing_cost_ ELSE Zero
        p1 == IF node.type = "kBorderControl" THEN p.country_crossing_penalty_
              ELSE IF node.type = "kGate" THEN p.gate_penalty_ ELSE Zero
        entry == pred_use # "kFerry" /\ edge.use = "kFerry"
        s2 == IF entry THEN Add(s1, p.ferry_cost_) ELSE s1
        p2 == IF entry THEN Add(p1, p.ferry_penalty_) ELSE p1
        p3 == IF ~edge.link /\ ~node.name_consistency
              THEN Add(p2, p.maneuver_penalty_) ELSE p2
        s3 == IF edge.edge_to_right /\ edge.edge_to_left
              THEN Add(s2, FromInt(kCrossingCosts[edge.stopimpact + 1])) ELSE s2
    IN  Cost(Add(s3, p3), s3)

\* Variant: the steps case of the reverse function after the node's penalties.
TransitionCostReverse_StepsAfterNode(p, node, pred_use, edge) ==
    TransitionCostVariant(p, edge, node, pred_use, FALSE, TRUE)

\* Lines 558-592.  pred_use is pred->use() of the predecessor edge.
TransitionCostReverse(p, node, pred_use, edge) ==
    IF edge.use = "kSteps" THEN Cost(p.step_penalty_, Zero)
    ELSE
    LET s1 == IF node.type = "kBorderControl" THEN p.country_crossing_cost_ ELSE Zero
        p1 == IF node.type = "kBorderControl" THEN p.country_crossing_penalty_
              ELSE IF node.type = "kGate" THEN p.gate_penalty_ ELSE Zero
        entry == pred_use # "kFerry" /\ edge.use = "kFerry"
        s2 == IF entry THEN Add(s1, p.ferry_cost_) ELSE s1
        p2 == IF entry THEN Add(p1, p.ferry_penalty_) ELSE p1
        p3 == IF ~edge.link /\ ~node.name_consistency
              THEN Add(p2, p.maneuver_penalty_) ELSE p2
        s3 == IF edge.edge_to_right /\ edge.edge_to_left
              THEN Add(s2, FromInt(kCrossingCosts[edge.stopimpact + 1])) ELSE s2
    IN  Cost(Add(s3, p3), s3)

\* Lines 600-603.
AStarCostFactor(p) ==
    IF Lt(p.walkway_factor_, One) THEN Mul(p.walkway_factor_, p.speedfactor_)
    ELSE p.speedfactor_

\* Lines 414-416: the profile after the call.
UseMaxMultiModalDistance(p) ==
    [p EXCEPT !.max_distance_ = p.transit_start_end_max_distance_]

\* Variant: the accessor writes the budget, as UseMaxMultiModalDistance does.
GetMaxTransferDistanceMM_Writes(p) ==
    [p EXCEPT !.max_distance_ = p.transit_transfer_max_distance_]

\* Lines 421-423 and 427-429: not const in the source; the profile after the call.
GetMaxTransferDistanceMM(p) == p
GetModeWeight(p) == p

\* DynamicCost::SetAllowTransitConnections: the profile after the call.
SetAllowTransitConnections(p, allow) ==
    [p EXCEPT !.allow_transit_connections_ = allow]

\* Lines 483-486: Allowed(node).
AllowedNode(p, node_access) == node_access \cap p.access_mask_ # {}

\* Lines 257-265: the lambda of GetEdgeFilter, access_mask captured by value.
\* rail_or_higher is edge->use() >= Use::kRail.
EdgeFilter(access_mask, edge) ==
    ~(\/ edge.trans_up
      \/ edge.trans_down
      \/ edge.is_shortcut
      \/ edge.rail_or_higher
      \/ edge.forwardaccess \cap access_mask = {})

\* Lines 267-273: the lambda of GetNodeFilter.
NodeFilter(access_mask, node_access) == ~(node_access \cap access_mask # {})

FilterEdges ==
    [trans_up : BOOLEAN, trans_down : BOOLEAN, is_shortcut : BOOLEAN,
     rail_or_higher : BOOLEAN, forwardaccess : AccessMasks]

(***************************************************************************)
(* The state machine: searches calling the operations of one profile       *)
(***************************************************************************)
Searches == {1, 2}

None == [op |-> "none"]

\* A profile constructed from one of the settings objects of S; no call yet.
Built(S) ==
    /\ pt \in S
    /\ \E u \in UBOutcomes : profile = PedestrianCost(pt, u)
    /\ initial = profile
    /\ ret = None

\* The label of a search that has not started.
NoLabel == [dir |-> "none", path_distance |-> 0, budget |-> 0, path |-> <<>>,
            charges |-> <<>>]

\* The same, with no search under way.
Constructed(S) == Built(S) /\ label = NoLabel

\* A call of a const method: it leaves the profile as it is and returns r.
Returns(r) ==
    /\ ret' = r
    /\ UNCHANGED <<pt, profile, initial, label>>

CallAllowed(s) ==
    /\ ret = None
    /\ \E edge \in AccessEdges, pred \in PathDistances, edgeid \in EdgeIds :
           Returns([op |-> "Allowed", search |-> s, edge |-> edge, pred |-> pred,
                    edgeid |-> edgeid, result |-> Allowed(profile, edge, pred, edgeid)])

CallAllowedReverse(s) ==
    /\ ret = None
    /\ \E opp_edge \in AccessEdges, pred \in PathDistances, opp_edgeid \in EdgeIds :
           Returns([op |-> "AllowedReverse", search |-> s, opp_edge |-> opp_edge,
                    pred |-> pred, opp_edgeid |-> opp_edgeid,
                    result |-> AllowedReverse(profile, pred, opp_edge, opp_edgeid)])

CallAllowedNode(s) ==
    /\ ret = None
    /\ \E access \in AccessMasks :
           Returns([op |-> "AllowedNode", search |-> s, access |-> access,
                    result |-> AllowedNode(profile, access)])

CallEdgeCost(s) ==
    /\ ret = None
    /\ \E edge \in CostEdges :
           Returns([op |-> "EdgeCost", search |-> s, edge |-> edge,
                    result |-> EdgeCost(profile, edge)])

CallTransitionCost(s) ==
    /\ ret = None
    /\ \E edge \in TransitionEdges, node \in Nodes, pred_use \in PredUses :
           Returns([op |-> "TransitionCost", search |-> s, edge |-> edge, node |-> node,
                    pred_use |-> pred_use,
                    result |-> TransitionCost(profile, edge, node, pred_use)])

CallTransitionCostReverse(s) ==
    /\ ret = None
    /\ \E edge \in TransitionEdges, node \in Nodes, pred_use \in PredUses :
           Returns([op |-> "TransitionCostReverse", search |-> s, edge |-> edge,
                    node |-> node, pred_use |-> pred_use,
                    result |-> TransitionCostReverse(profile, node, pred_use, edge)])

CallAStarCostFactor(s) ==
    /\ ret = None
    /\ Returns([op |-> "AStarCostFactor", search |-> s,
                result |-> AStarCostFactor(profile)])

CallTravelType(s) ==
    /\ ret = None
    /\ Returns([op |-> "travel_type", search |-> s, result |-> profile.type_])

CallAccessMode(s) ==
    /\ ret = None
    /\ Returns([op |-> "access_mode", search |-> s, result |-> profile.access_mask_])

CallEdgeFilter(s) ==
    /\ ret = None
    /\ \E edge \in FilterEdges :
           Returns([op |-> "GetEdgeFilter", search |-> s, edge |-> edge,
                    result |-> EdgeFilter(profile.access_mask_, edge)])

CallNodeFilter(s) ==
    /\ ret = None
    /\ \E access \in AccessMasks :
           Returns([op |-> "GetNodeFilter", search |-> s, access |-> access,
                    result |-> NodeFilter(profile.access_mask_, access)])

CallGetMaxTransferDistanceMM(s) ==
    /\ ret = None
    /\ profile' = GetMaxTransferDistanceMM(profile)
    /\ ret' = [op |-> "GetMaxTransferDistanceMM", search |-> s,
               result |-> profile.transit_transfer_max_distance_]
    /\ UNCHANGED <<pt, initial, label>>

CallGetModeWeight(s) ==
    /\ ret = None
    /\ profile' = GetModeWeight(profile)
    /\ ret' = [op |-> "GetModeWeight", search |-> s, result |-> profile.mode_weight_]
    /\ UNCHANGED <<pt, initial, label>>

CallUseMaxMultiModalDistance(s) ==
    /\ ret = None
    /\ profile' = UseMaxMultiModalDistance(profile)
    /\ ret' = [op |-> "UseMaxMultiModalDistance", search |-> s]
    /\ UNCHANGED <<pt, initial, label>>

CallSetAllowTransitConnections(s) ==
    /\ ret = None
    /\ profile' = SetAllowTransitConnections(profile, TRUE)
    /\ ret' = [op |-> "SetAllowTransitConnections", search |-> s]
    /\ UNCHANGED <<pt, initial, label>>

\* The caller takes the returned value; the next call can start.
Return ==
    /\ ret # None
    /\ ret' = None
    /\ UNCHANGED <<pt, profile, initial, label>>

\* The operations grouped by what they read.
CallAccess(s) ==
    \/ CallAllowed(s)
    \/ CallAllowedReverse(s)
    \/ CallAllowedNode(s)
    \/ CallEdgeFilter(s)
    \/ CallNodeFilter(s)

CallCost(s) ==
    \/ CallEdgeCost(s)
    \/ CallTransitionCost(s)
    \/ CallTransitionCostReverse(s)
    \/ CallAStarCostFactor(s)

CallAccessor(s) ==
    \/ CallTravelType(s)
    \/ CallAccessMode(s)
    \/ CallGetMaxTransferDistanceMM(s)
    \/ CallGetModeWeight(s)

CallSwitch(s) ==
    \/ CallUseMaxMultiModalDistance(s)
    \/ CallSetAllowTransitConnections(s)

\* Settings objects by what they configure.
TypeSettings == {p \in Settings : p.key = ""}
AccessSettings ==
    {p \in Settings : p.key \in {"", "max_distance", "transit_start_end_max_distance"}}
CostSettings ==
    {p \in Settings :
        p.key \in {"", "walking_speed", "step_penalty", "maneuver_penalty", "gate_penalty",
                   "walkway_factor", "sidewalk_factor", "alley_factor", "driveway_factor",
                   "ferry_cost", "country_crossing_cost", "country_crossing_penalty",
                   "use_ferry"}}

\* Every operation, one search, a profile of each type.
Init == Constructed(TypeSettings)
Next == CallAccess(1) \/ CallCost(1) \/ CallAccessor(1) \/ CallSwitch(1) \/ Return
Spec == Init /\ [][Next]_vars

\* Construction from every settings object, then the accessors and switches.
InitConfig == Constructed(Settings)
NextConfig == CallAccessor(1) \/ CallSwitch(1) \/ CallAStarCostFactor(1) \/ Return
SpecConfig == InitConfig /\ [][NextConfig]_vars

\* The access predicates under every distance budget and both switches.
InitAccess == Constructed(AccessSettings)
NextAccess == CallAccess(1) \/ CallSwitch(1) \/ Return
SpecAccess == InitAccess /\ [][NextAccess]_vars

\* The costs under every setting they read.
InitCost == Constructed(CostSettings)
NextCost == CallCost(1) \/ Return
SpecCost == InitCost /\ [][NextCost]_vars

\* Two searches sharing one profile, their calls interleaved.
SharedSettings ==
    {p \in Settings :
        \/ p.key = "" /\ p.type \in {"foot", "wheelchair"}
        \/ /\ p.type = "foot"
           /\ p.key \in {"transit_start_end_max_distance", "transit_transfer_max_distance"}
           /\ p.val = FromInt(100)}
InitShared == Constructed(SharedSettings)
NextShared ==
    \/ \E s \in Searches : CallAccess(s) \/ CallCost(s) \/ CallAccessor(s) \/ CallSwitch(s)
    \/ Return
SpecShared == InitShared /\ [][NextShared]_vars

(***************************************************************************)
(* Properties                                                              *)
(***************************************************************************)
\* The declared range of a key for a profile of type_ t.
RangeOf(key, t) ==
    LET w == (t = "kWheelchair")
    IN  CASE key = "max_distance" ->
                IF w THEN kMaxDistanceWheelchairRange ELSE kMaxDistanceFootRange
          [] key = "walking_speed" -> IF w THEN kSpeedWheelchairRange ELSE kSpeedFootRange
          [] key = "step_penalty" ->
                IF w THEN kStepPenaltyWheelchairRange ELSE kStepPenaltyFootRange
          [] key = "max_grade" ->
                IF w THEN kMaxGradeWheelchairRange ELSE kMaxGradeFootRange
          [] key = "mode_weight" -> kModeWeightRange
          [] key = "maneuver_penalty" -> kManeuverPenaltyRange
          [] key = "gate_penalty" -> kGatePenaltyRange
          [] key = "walkway_factor" -> kWalkwayFactorRange
          [] key = "sidewalk_factor" -> kSideWalkFactorRange
          [] key = "alley_factor" -> kAlleyFactorRange
          [] key = "driveway_factor" -> kDrivewayFactorRange
          [] key = "ferry_cost" -> kFerryCostRange
          [] key = "country_crossing_cost" -> kCountryCrossingCostRange
          [] key = "country_crossing_penalty" -> kCountryCrossingPenaltyRange
          [] key = "use_ferry" -> kUseFerryRange
          [] key = "transit_start_end_max_distance" -> kTransitStartEndMaxDistanceRange
          [] key = "transit_transfer_max_distance" -> kTransitTransferMaxDistanceRange

\* The value the profile p stores for a key, as a fraction.
Stored(p, key) ==
    CASE key = "max_distance" -> FromInt(p.max_distance_)
      [] key = "walking_speed" -> p.speed_
      [] key = "step_penalty" -> p.step_penalty_
      [] key = "max_grade" -> FromInt(p.max_grade_)
      [] key = "mode_weight" -> p.mode_weight_
      [] key = "maneuver_penalty" -> p.maneuver_penalty_
      [] key = "gate_penalty" -> p.gate_penalty_
      [] key = "walkway_factor" -> p.walkway_factor_
      [] key = "sidewalk_factor" -> p.sidewalk_factor_
      [] key = "alley_factor" -> p.alley_factor_
      [] key = "driveway_factor" -> p.driveway_factor_
      [] key = "ferry_cost" -> p.ferry_cost_
      [] key = "country_crossing_cost" -> p.country_crossing_cost_
      [] key = "country_crossing_penalty" -> p.country_crossing_penalty_
      [] key = "use_ferry" -> p.use_ferry_
      [] key = "transit_start_end_max_distance" ->
            FromInt(p.transit_start_end_max_distance_)
      [] key = "transit_transfer_max_distance" ->
            FromInt(p.transit_transfer_max_distance_)

InRange(v, r) == Le(r.min, v) /\ Le(v, r.max)

\* C1: every ranged tunable stored in the constructed profile lies in the
\* [min, max] of its declared range for the selected type, whatever value was
\* supplied.  (The constructor stores what the get returns; the parameter test
\* of lines 639-861 asserts this property.)
C1_StoredInRange ==
    \A k \in Keys : InRange(Stored(initial, k), RangeOf(k, initial.type_))

\* C2: construction succeeds for every settings object with numeric values,
\* negative, fractional and out-of-range values of the integer keys included:
\* the outcome is a constructed profile whose integer fields hold integers of
\* the type, never the exception of a failed translation.
C2_ConstructionSucceeds ==
    /\ initial.outcome = "constructed"
    /\ \A k \in UIntKeys :
          /\ Stored(initial, k).n \in 0 .. (kUInt32Modulus - 1)
          /\ pt.key = k /\ pt.val.d # 1 => Stored(initial, k) = RangeOf(k, initial.type_).def

C2_Witness ==
    /\ pt.key \in UIntKeys
    /\ pt.val.d # 1 \/ pt.val.n < 0
    /\ initial.outcome = "constructed"

\* The fields PedestrianCost declares (allow_transit_connections_ is the base
\* class's).
OwnFields == DOMAIN initial \ {"allow_transit_connections_", "outcome"}

\* C3 as stated: in every reachable state every field equals the value it had
\* when construction finished.
C3_NoFieldChanges == \A k \in OwnFields : profile[k] = initial[k]

\* C3 amended: every field other than max_distance_ equals the value it had
\* when construction finished, and max_distance_ is either that value or
\* transit_start_end_max_distance_ (after UseMaxMultiModalDistance).
C3_OnlyBudgetChanges ==
    /\ \A k \in OwnFields \ {"max_distance_"} : profile[k] = initial[k]
    /\ profile.max_distance_ \in
          {initial.max_distance_, initial.transit_start_end_max_distance_}
    /\ ret.op = "UseMaxMultiModalDistance" =>
          profile.max_distance_ = initial.transit_start_end_max_distance_

C3_Witness ==
    /\ ret.op = "GetMaxTransferDistanceMM"
    /\ profile.max_distance_ # initial.max_distance_
    /\ profile.max_distance_ = initial.transit_start_end_max_distance_

\* The answer forward Allowed gives on profile p is the same as on profile q,
\* for every edge, predecessor distance and edge id.
SameAnswers(p, q) ==
    \A edge \in AccessEdges, pred \in PathDistances, edgeid \in EdgeIds :
        Allowed(p, edge, pred, edgeid) = Allowed(q, edge, pred, edgeid)

\* C4 as stated: no call one search makes on the profile, UseMaxMultiModalDistance
\* included, changes an answer Allowed gives the other search.
C4_NoCallChangesAnswers ==
    [][(/\ ret'.op # "none"
        /\ ret'.search = 2
        /\ ret'.op # "SetAllowTransitConnections")
       => SameAnswers(profile, profile')]_vars

\* C4 amended: no call other than UseMaxMultiModalDistance and the switch that
\* allows transit connections changes an answer Allowed gives the other search.
C4_OnlySwitchesChangeAnswers ==
    [][(/\ ret'.op # "none"
        /\ ret'.search = 2
        /\ ret'.op \notin {"UseMaxMultiModalDistance", "SetAllowTransitConnections"})
       => SameAnswers(profile, profile')]_vars

C4_Witness ==
    /\ ret.op = "GetMaxTransferDistanceMM"
    /\ ret.search = 2
    /\ profile.max_distance_ # initial.max_distance_
    /\ ~SameAnswers(profile, initial)

\* The settings object holds no value outside the declared range of its key.
InRangeSettings ==
    pt.key = "" \/ InRange(pt.val, RangeOf(pt.key, initial.type_))

\* C5: admissibility.  For a profile built from in-range settings and an edge
\* of positive length, whatever its use, AStarCostFactor() is at most
\* EdgeCost(edge).cost / edge.length.
C5_Admissible ==
    (InRangeSettings /\ ret.op = "EdgeCost" /\ ret.edge.length > 0)
    => Le(AStarCostFactor(profile), Div(ret.result.cost, FromInt(ret.edge.length)))

CostOps == {"EdgeCost", "TransitionCost", "TransitionCostReverse"}

\* C6: for every settings object, edge, node and predecessor, the cost and the
\* time returned by EdgeCost, TransitionCost and TransitionCostReverse are >= 0.
C6_NonNegative ==
    ret.op \in CostOps => Le(Zero, ret.result.cost) /\ Le(Zero, ret.result.secs)

C8_AllowedReverseExactly ==
    ret.op = "AllowedReverse" =>
        (ret.result <=>
            /\ profile.access_mask_ \subseteq ret.opp_edge.forwardaccess
            /\ ret.opp_edge.surface <= profile.minimal_allowed_surface_
            /\ ~ret.opp_edge.is_shortcut
            /\ ret.opp_edgeid \notin user_avoid_edges
            /\ ret.opp_edge.use # "kTransitConnection")

\* A transit connection is rejected although the switch allows them and
\* nothing else speaks against the edge, with the budget already exceeded.
C8_Witness ==
    /\ ret.op = "AllowedReverse"
    /\ ~ret.result
    /\ profile.allow_transit_connections_
    /\ ret.opp_edge.use = "kTransitConnection"
    /\ profile.access_mask_ \subseteq ret.opp_edge.forwardaccess
    /\ ret.opp_edge.surface <= profile.minimal_allowed_surface_
    /\ ~ret.opp_edge.is_shortcut
    /\ ret.opp_edgeid \notin user_avoid_edges
    /\ ret.pred + ret.opp_edge.length > profile.max_distance_

\* C9: onto a steps edge, TransitionCost and TransitionCostReverse return
\* exactly {step_penalty, 0}, for every node type, name consistency,
\* predecessor use, link flag and neighbour / stop-impact combination.
C9_StepsFixedPenalty ==
    (ret.op \in {"TransitionCost", "TransitionCostReverse"} /\ ret.edge.use = "kSteps")
    => ret.result = Cost(profile.step_penalty_, Zero)

C9_Witness ==
    /\ ret.op = "TransitionCostReverse"
    /\ ret.edge.use = "kSteps"
    /\ ret.node.type = "kBorderControl"
    /\ ~ret.node.name_consistency
    /\ ~ret.edge.link
    /\ ret.edge.edge_to_right /\ ret.edge.edge_to_left /\ ret.edge.stopimpact = 7
    /\ ret.result = Cost(profile.step_penalty_, Zero)
    /\ profile.step_penalty_ # kDefaultStepPenaltyFoot

\* C10 as stated: at a border-control node the time TransitionCost returns is
\* >= country_crossing_cost, for every destination edge and predecessor.
C10_BorderTime ==
    (ret.op = "TransitionCost" /\ ret.node.type = "kBorderControl")
    => Le(profile.country_crossing_cost_, ret.result.secs)

\* C10 amended: at a border-control node and onto an edge that is not steps,
\* the time TransitionCost returns is >= country_crossing_cost, plus ferry_cost
\* when the transition enters a ferry.
C10_BorderTimeNotSteps ==
    (ret.op = "TransitionCost" /\ ret.node.type = "kBorderControl"
        /\ ret.edge.use # "kSteps")
    => Le(Add(profile.country_crossing_cost_,
              IF ret.pred_use # "kFerry" /\ ret.edge.use = "kFerry"
              THEN profile.ferry_cost_ ELSE Zero),
          ret.result.secs)

C10_Witness ==
    /\ ret.op = "TransitionCost"
    /\ ret.node.type = "kBorderControl"
    /\ ret.edge.use = "kFerry"
    /\ ret.pred_use = "kRoad"
    /\ Lt(Zero, profile.country_crossing_cost_)
    /\ ret.result.secs = Add(profile.country_crossing_cost_, profile.ferry_cost_)

(***************************************************************************)
(* The local index of the transition costs                                 *)
(*                                                                         *)
(* edge_to_right, edge_to_left and stopimpact of an edge are indexed by a   *)
(* local edge index at the node, name_consistency of a node by a pair of   *)
(* them.  The forward function takes the index from the predecessor label  *)
(* (line 540), the reverse function is handed it (line 559).               *)
(***************************************************************************)
LocalIdx == {0, 1}

\* Edges and nodes with their indexed attributes.
IndexedEdges ==
    [use : {"kRoad", "kSteps", "kFerry"}, link : BOOLEAN, localedgeidx : LocalIdx,
     edge_to_right : {[i \in LocalIdx |-> TRUE], [i \in LocalIdx |-> i = 0]},
     edge_to_left : {[i \in LocalIdx |-> TRUE], [i \in LocalIdx |-> i = 1]},
     stopimpact : {[i \in LocalIdx |-> 7 - 3 * i], [i \in LocalIdx |-> 2]}]
IndexedNodes ==
    [type : {"kStreetIntersection", "kGate", "kBorderControl"},
     name_consistency :
        {[i \in LocalIdx |-> [j \in LocalIdx |-> TRUE]],
         [i \in LocalIdx |-> [j \in LocalIdx |-> FALSE]],
         [i \in LocalIdx |-> [j \in LocalIdx |-> i = 0]],
         [i \in LocalIdx |-> [j \in LocalIdx |-> i = j]]}]
Labels == [use : PredUses, opp_local_idx : LocalIdx]

\* What the functions read of an edge and a node through the index idx.
EdgeAt(edge, idx) ==
    [use |-> edge.use, link |-> edge.link,
     edge_to_right |-> edge.edge_to_right[idx],
     edge_to_left |-> edge.edge_to_left[idx],
     stopimpact |-> edge.stopimpact[idx]]
NodeAt(node, idx, localedgeidx) ==
    [type |-> node.type, name_consistency |-> node.name_consistency[idx][localedgeidx]]

\* Variant: the reverse function indexing with the edge's own local index.
ReverseIdx_Own(idx, edge) == edge.localedgeidx

\* The index the forward function uses (line 540: idx = pred.opp_local_idx())
\* and the one the reverse function uses (its parameter idx).
ForwardIdx(pred) == pred.opp_local_idx
ReverseIdx(idx, edge) == idx

\* TransitionCost(edge, node, pred) and TransitionCostReverse(idx, node, pred, edge)
\* on indexed edges and nodes.
TransitionCostAt(p, edge, node, pred) ==
    TransitionCost(p, EdgeAt(edge, ForwardIdx(pred)),
                   NodeAt(node, ForwardIdx(pred), edge.localedgeidx), pred.use)
TransitionCostReverseAt(p, idx, node, pred_edge, edge) ==
    TransitionCostReverse(p, NodeAt(node, ReverseIdx(idx, edge), edge.localedgeidx),
                          pred_edge.use, EdgeAt(edge, ReverseIdx(idx, edge)))

\* One junction costed from both sides: the forward search with its label, the
\* reverse search with the index and the predecessor edge it is handed.
CallMirroredTransition(s) ==
    /\ ret = None
    /\ \E edge \in IndexedEdges, node \in IndexedNodes, pred \in Labels,
          idx \in LocalIdx, pred_use \in PredUses :
           Returns([op |-> "MirroredTransition", search |-> s, edge |-> edge,
                    node |-> node, pred |-> pred, idx |-> idx, pred_use |-> pred_use,
                    forward |-> TransitionCostAt(profile, edge, node, pred),
                    reverse |-> TransitionCostReverseAt(profile, idx, node,
                                                        [use |-> pred_use], edge)])

MirrorSettings == {p \in TypeSettings : p.type \in {"foot", "wheelchair"}}
InitMirror == Constructed(MirrorSettings)
NextMirror == CallMirroredTransition(1) \/ Return
SpecMirror == InitMirror /\ [][NextMirror]_vars

\* C11: forward and reverse transition costs agree under mirroring: whenever
\* the label's opp_local_idx is the index handed to the reverse function and
\* the label's use is the predecessor edge's use, both return the same
\* {cost, time}.
C11_MirrorAgrees ==
    (/\ ret.op = "MirroredTransition"
     /\ ret.pred.opp_local_idx = ret.idx
     /\ ret.pred.use = ret.pred_use)
    => ret.forward = ret.reverse

\* A junction with a name change, a crossing and a ferry entry, whose
\* attributes differ between the two local indices.
C11_Witness ==
    /\ ret.op = "MirroredTransition"
    /\ ret.pred.opp_local_idx = ret.idx
    /\ ret.pred.use = ret.pred_use
    /\ ret.edge.use = "kFerry" /\ ret.pred_use = "kRoad"
    /\ ~ret.edge.link
    /\ ret.node.name_consistency[ret.idx][ret.edge.localedgeidx]
          # ret.node.name_consistency[1 - ret.idx][ret.edge.localedgeidx]
    /\ ~ret.node.name_consistency[ret.idx][ret.edge.localedgeidx]
    /\ ret.edge.edge_to_right[ret.idx] /\ ret.edge.edge_to_left[ret.idx]
    /\ ret.forward = ret.reverse
    /\ ret.forward.secs = Add(profile.ferry_cost_, FromInt(kCrossingCosts[ret.edge.stopimpact[ret.idx] + 1]))

\* C12: the time of EdgeCost is physical: for a non-ferry edge it is the
\* length times 3600 * 0.001 / walking speed, whatever the use and the
\* roundabout flag; for a ferry edge it is length * 3600 * 0.001 / edge speed,
\* whatever the walking speed and the ferry weight.
C12_PhysicalTime ==
    ret.op = "EdgeCost" =>
        ret.result.secs =
            IF ret.edge.use = "kFerry"
            THEN Div(Mul(FromInt(ret.edge.length), Q(3600, 1000)), FromInt(ret.edge.speed))
            ELSE Mul(FromInt(ret.edge.length), Div(Q(3600, 1000), profile.speed_))

\* A ferry edge of 100 m at 10 km/h takes 36 s under a profile whose walking
\* speed and ferry weight would give another number.
C12_Witness ==
    /\ ret.op = "EdgeCost"
    /\ ret.edge.use = "kFerry" /\ ret.edge.length > 0 /\ ret.edge.speed = 10
    /\ profile.ferry_weight_ # One
    /\ profile.speedfactor_ # Q(36, 100)
    /\ ret.result.secs = Q(36 * ret.edge.length, 100)
    /\ ret.result.cost # ret.result.secs

\* The multiplier of an edge: the first case that matches, in this order.
EdgeMultiplier(p, edge) ==
    CASE edge.use = "kFerry" -> p.ferry_weight_
      [] edge.use = "kFootway" -> p.walkway_factor_
      [] edge.use = "kAlley" -> p.alley_factor_
      [] edge.use = "kDriveway" -> p.driveway_factor_
      [] edge.use = "kSidewalk" -> p.sidewalk_factor_
      [] OTHER -> IF edge.roundabout THEN FromInt(5) ELSE One

\* C13: the cost of EdgeCost is its time times exactly one multiplier, the
\* first match of: ferry, footway, alley, driveway, sidewalk, roundabout flag
\* (5), otherwise 1; a roundabout flag on an edge of one of the five uses
\* changes nothing; a default foot profile costs a sidewalk edge 0.95 times
\* its time.
C13_OneMultiplier ==
    ret.op = "EdgeCost" =>
        /\ ret.result.cost = Mul(ret.result.secs, EdgeMultiplier(profile, ret.edge))
        /\ (pt = [type |-> "foot", key |-> "", val |-> Zero] /\ ret.edge.use = "kSidewalk")
               => ret.result.cost = Mul(Q(95, 100), ret.result.secs)

\* A sidewalk edge on a roundabout, costed with the sidewalk factor.
C13_Witness ==
    /\ ret.op = "EdgeCost"
    /\ pt = [type |-> "foot", key |-> "", val |-> Zero]
    /\ ret.edge.use = "kSidewalk" /\ ret.edge.roundabout /\ ret.edge.length > 0
    /\ ret.result.cost = Mul(Q(95, 100), ret.result.secs)
    /\ ret.result.cost # Mul(FromInt(5), ret.result.secs)

(***************************************************************************)
(* The ferry dial: profiles built with use_ferry on a grid over [0, 1]      *)
(***************************************************************************)
DialSteps == 8
Dials == {Q(k, DialSteps) : k \in 0..DialSteps}
DialSettings == [type : {"foot"}, key : {"use_ferry"}, val : Dials]
InitDial == Constructed(DialSettings)
NextDial == CallCost(1) \/ Return
SpecDial == InitDial /\ [][NextDial]_vars

\* C14: the ferry dial is continuous and monotone: use_ferry 0 gives penalty
\* 28800 and weight 10, use_ferry 1 gives penalty 0 and weight 0.5, at 0.5 the
\* penalty is 0 and the weight 1 and below 0.5 both come within a multiple of
\* the distance to 0.5 of these values; for every d in [0, 1] neither the
\* penalty nor the weight grows when d grows.
C14_FerryDial ==
    LET d == profile.use_ferry_
        penalty == profile.ferry_penalty_
        weight == profile.ferry_weight_
        gap == Sub(Q(1, 2), d)
    IN  /\ d = Zero => penalty = FromInt(28800) /\ weight = FromInt(10)
        /\ d = One => penalty = Zero /\ weight = Q(1, 2)
        /\ d = Q(1, 2) => penalty = Zero /\ weight = One
        /\ Lt(d, Q(1, 2)) =>
               /\ Le(One, weight) /\ Le(Sub(weight, One), Mul(FromInt(18), gap))
               /\ Le(Zero, penalty) /\ Le(penalty, Mul(FromInt(57600), gap))
        /\ \A e \in Dials :
               Le(d, e) => /\ Le(FerryPenalty(e), penalty)
                           /\ Le(FerryWeight(e), weight)

\* The profile at the meeting point of the two branches, costing a ferry edge.
C14_Witness ==
    /\ profile.use_ferry_ = Q(1, 2)
    /\ profile.ferry_penalty_ = Zero /\ profile.ferry_weight_ = One
    /\ \E e \in Dials : Lt(e, Q(1, 2)) /\ Lt(One, FerryWeight(e)) /\ Lt(Zero, FerryPenalty(e))
    /\ ret.op = "EdgeCost" /\ ret.edge.use = "kFerry" /\ ret.edge.length > 0
    /\ ret.result.cost = ret.result.secs

\* What the type selects in a profile: access mask, minimal surface, and the
\* four values whose defaults depend on the type.
TypeValues(p) ==
    <<p.access_mask_, p.minimal_allowed_surface_, FromInt(p.max_distance_), p.speed_,
      p.step_penalty_, FromInt(p.max_grade_)>>
FootValues ==
    <<kPedestrianAccess, kPath, kMaxDistanceFootRange.def, kSpeedFootRange.def,
      kStepPenaltyFootRange.def, kMaxGradeFootRange.def>>
WheelchairValues ==
    <<kWheelchairAccess, kCompacted, kMaxDistanceWheelchairRange.def,
      kSpeedWheelchairRange.def, kStepPenaltyWheelchairRange.def,
      kMaxGradeWheelchairRange.def>>
TravelTypeOf(type) ==
    CASE type = "wheelchair" -> "kWheelchair"
      [] type = "segway" -> "kSegway"
      [] OTHER -> "kFoot"

\* C15 as stated: the type key selects the access mask, the minimal surface,
\* the travel type and the type's defaults: each of foot, wheelchair and
\* segway gets the access mask and defaults of its own type (a segway profile
\* those of neither foot nor wheelchair), travel_type() reports the selected
\* type, an unrecognized or absent type is foot, and every other absent key
\* takes its declared default.
C15_OwnTypeValues ==
    /\ initial.type_ = TravelTypeOf(pt.type)
    /\ ret.op = "travel_type" => ret.result = TravelTypeOf(pt.type)
    /\ pt.key = "" =>
          /\ pt.type = "wheelchair" => TypeValues(initial) = WheelchairValues
          /\ pt.type \in {"foot", "bicycle", "absent"} => TypeValues(initial) = FootValues
          /\ pt.type = "segway" => TypeValues(initial) \notin {FootValues, WheelchairValues}
    /\ \A k \in (Keys \ TypeKeys) \ {pt.key} :
          Stored(initial, k) = RangeOf(k, initial.type_).def

\* C15, amended: wheelchair gets its own access mask, minimal surface and
\* defaults; foot, segway, unrecognized and absent types all get the
\* pedestrian access mask, the minimal surface path and the foot defaults;
\* travel_type() reports wheelchair, segway or (for everything else) foot;
\* every absent key takes its declared default.
C15_TypeSelects ==
    LET w == pt.type = "wheelchair"
    IN  /\ initial.type_ = TravelTypeOf(pt.type)
        /\ ret.op = "travel_type" => ret.result = TravelTypeOf(pt.type)
        /\ initial.access_mask_ = IF w THEN kWheelchairAccess ELSE kPedestrianAccess
        /\ initial.minimal_allowed_surface_ = IF w THEN kCompacted ELSE kPath
        /\ pt.key = "" => TypeValues(initial) = IF w THEN WheelchairValues ELSE FootValues
        /\ \A k \in Keys \ {pt.key} :
              Stored(initial, k) = RangeOf(k, IF w THEN "kWheelchair" ELSE "kFoot").def

\* A segway profile reporting its type and carrying the foot values.
C15_Witness ==
    /\ pt.type = "segway"
    /\ ret.op = "travel_type" /\ ret.result = "kSegway"
    /\ TypeValues(initial) = FootValues
    /\ FootValues # WheelchairValues

\* C16: after UseMaxMultiModalDistance the budget forward Allowed applies is
\* transit_start_end_max_distance, and that budget is never larger than the
\* budget in force before the call, for every configured pair of max_distance
\* and transit_start_end_max_distance.
C16_SwitchOnlyTightens ==
    [][ret'.op = "UseMaxMultiModalDistance" =>
          /\ profile'.max_distance_ = profile.transit_start_end_max_distance_
          /\ \A edge \in AccessEdges, pred \in PathDistances, edgeid \in EdgeIds :
                 Allowed(profile', edge, pred, edgeid)
                     => pred + edge.length <= profile.transit_start_end_max_distance_
          /\ profile'.max_distance_ <= profile.max_distance_]_vars

(***************************************************************************)
(* A search using the profile                                              *)
(*                                                                         *)
(* The search owns an edge label: the accumulated path distance and the    *)
(* use of the edge just traversed.  It expands the label by an edge only   *)
(* when the access predicate returned true, and adds the transition cost   *)
(* onto the edge.  The label also records the budget in force at the last  *)
(* acceptance, the uses along the path in travel order, and the transition *)
(* cost charged between each two consecutive edges of the path.            *)
(***************************************************************************)
MaxHops == 3

\* Edges the search meets: passable by every profile, at a plain junction.
SearchEdges ==
    [forwardaccess : {{"auto", "pedestrian", "wheelchair"}}, surface : {kCompacted},
     is_shortcut : {FALSE}, use : {"kRoad", "kFerry", "kSteps"}, length : {EdgeLength},
     link : {FALSE}, edge_to_right : {FALSE}, edge_to_left : {FALSE}, stopimpact : {0}]
SearchNode == [type |-> "kStreetIntersection", name_consistency |-> TRUE]

\* The search starts on an origin edge at accumulated distance 0.
StartLabel(dir, use, p) ==
    [dir |-> dir, path_distance |-> 0, budget |-> p.max_distance_, path |-> <<use>>,
     charges |-> <<>>]

\* The forward search tries an edge leaving the end of the path.
Expand(s) ==
    /\ ret = None
    /\ label.dir = "forward"
    /\ Len(label.path) <= MaxHops
    /\ \E edge \in SearchEdges, edgeid \in EdgeIds :
          LET allowed == Allowed(profile, edge, label.path_distance, edgeid)
              charge == TransitionCost(profile, edge, SearchNode,
                                       label.path[Len(label.path)])
          IN  /\ ret' = [op |-> "Expand", search |-> s, edge |-> edge,
                         edgeid |-> edgeid, allowed |-> allowed]
              /\ label' = IF allowed
                          THEN [label EXCEPT !.path_distance = @ + edge.length,
                                             !.budget = profile.max_distance_,
                                             !.path = Append(@, edge.use),
                                             !.charges = Append(@, charge)]
                          ELSE label
    /\ UNCHANGED <<pt, profile, initial>>

\* The reverse search tries an edge arriving at the start of the path: the
\* transition is from the new edge onto the first edge of the path.
ExpandReverse(s) ==
    /\ ret = None
    /\ label.dir = "reverse"
    /\ Len(label.path) <= MaxHops
    /\ \E opp_edge \in SearchEdges, opp_edgeid \in EdgeIds :
          LET allowed == AllowedReverse(profile, label.path_distance, opp_edge, opp_edgeid)
              edge == [opp_edge EXCEPT !.use = Head(label.path)]
              charge == TransitionCostReverse(profile, SearchNode, opp_edge.use, edge)
          IN  /\ ret' = [op |-> "ExpandReverse", search |-> s, edge |-> opp_edge,
                         edgeid |-> opp_edgeid, allowed |-> allowed]
              /\ label' = IF allowed
                          THEN [label EXCEPT !.path_distance = @ + opp_edge.length,
                                             !.budget = profile.max_distance_,
                                             !.path = <<opp_edge.use>> \o @,
                                             !.charges = <<charge>> \o @]
                          ELSE label
    /\ UNCHANGED <<pt, profile, initial>>

SearchSettings ==
    {p \in Settings :
        /\ p.type = "foot"
        /\ \/ p.key = ""
           \/ p.key = "max_distance" /\ p.val = FromInt(200)
           \/ p.key = "transit_start_end_max_distance" /\ p.val = FromInt(100)
           \/ p.key = "use_ferry" /\ p.val = Zero}
InitSearch ==
    /\ Built(SearchSettings)
    /\ \E dir \in {"forward", "reverse"}, use \in PredUses :
           label = StartLabel(dir, use, profile)
NextSearch ==
    \/ Expand(1)
    \/ ExpandReverse(1)
    \/ CallUseMaxMultiModalDistance(1)
    \/ Return
SpecSearch == InitSearch /\ [][NextSearch]_vars

\* C17: in a forward search that starts at distance 0 and extends its path
\* only by edges for which Allowed returned true, the accumulated path
\* distance of the label never exceeds the budget in force when its last edge
\* was accepted.
C17_WithinBudget ==
    label.dir = "forward" => label.path_distance <= label.budget

\* A path of two edges that ends exactly on the budget.
C17_Witness ==
    /\ label.dir = "forward"
    /\ ret.op = "Expand" /\ ret.allowed
    /\ Len(label.path) > 2
    /\ label.path_distance = label.budget

\* The ferry boarding contribution of a profile, and no contribution.
Boarding(p) == Cost(Add(p.ferry_cost_, p.ferry_penalty_), p.ferry_cost_)
NoCharge == Cost(Zero, Zero)

\* The maximal runs of consecutive ferry edges of a path, as <<first, last>>.
FerryRuns(path) ==
    {r \in (1..Len(path)) \X (1..Len(path)) :
        /\ r[1] <= r[2]
        /\ \A i \in r[1]..r[2] : path[i] = "kFerry"
        /\ r[1] = 1 \/ path[r[1] - 1] # "kFerry"
        /\ r[2] = Len(path) \/ path[r[2] + 1] # "kFerry"}

Contribution(cond, name, amount) == IF cond THEN {<<name, amount>>} ELSE {}
TimeContributions(p, edge, node, pred_use) ==
    Contribution(node.type = "kBorderControl", "border", p.country_crossing_cost_)
    \cup Contribution(pred_use # "kFerry" /\ edge.use = "kFerry", "ferry", p.ferry_cost_)
    \cup Contribution(edge.edge_to_left /\ edge.edge_to_right, "crossing",
                      FromInt(kCrossingCosts[edge.stopimpact + 1]))
PenaltyContributions(p, edge, node, pred_use) ==
    Contribution(node.type = "kBorderControl", "border", p.country_crossing_penalty_)
    \cup Contribution(node.type # "kBorderControl" /\ node.type = "kGate", "gate",
                      p.gate_penalty_)
    \cup Contribution(pred_use # "kFerry" /\ edge.use = "kFerry", "ferry", p.ferry_penalty_)
    \cup Contribution(~edge.link /\ ~node.name_consistency, "maneuver",
                      p.maneuver_penalty_)
RECURSIVE Sum(_)
Sum(S) == IF S = {} THEN Zero
          ELSE LET c == CHOOSE c \in S : TRUE IN Add(c[2], Sum(S \ {c}))

\* The first part of C18: the result is {seconds + penalty, seconds} with
\* seconds and penalty the sums of exactly the listed contributions, and the
\* stop-impact rating is an index of the table.
C18_Contributions ==
    (ret.op = "TransitionCost" /\ ret.edge.use # "kSteps") =>
        LET seconds == Sum(TimeContributions(profile, ret.edge, ret.node, ret.pred_use))
            penalty == Sum(PenaltyContributions(profile, ret.edge, ret.node, ret.pred_use))
        IN  /\ ret.result = Cost(Add(seconds, penalty), seconds)
            /\ ret.edge.stopimpact + 1 \in DOMAIN kCrossingCosts

\* C18: for a destination edge that is not steps, TransitionCost returns
\* {seconds + penalty, seconds}, seconds and penalty being the sums of exactly
\* the border, gate, ferry-entry, maneuver and crossing contributions; hence
\* the cost is at least the time in every result.
C18_SumOfContributions ==
    /\ C18_Contributions
    /\ ret.op = "TransitionCost" => Le(ret.result.secs, ret.result.cost)

\* The edge half of C20: the edge filter returns true exactly for edges that
\* carry the profile's access bit and are no shortcuts, no hierarchy
\* transition edges and not of use rail or higher.
C20_EdgeFilterExactly ==
    ret.op = "GetEdgeFilter" =>
        (ret.result <=>
            /\ initial.access_mask_ \subseteq ret.edge.forwardaccess
            /\ ~ret.edge.is_shortcut
            /\ ~ret.edge.trans_up /\ ~ret.edge.trans_down
            /\ ~ret.edge.rail_or_higher)

\* C20: the filters handed to location search agree with the access
\* predicates: the node filter returns the same boolean as Allowed(node), true
\* exactly when the node's access mask contains the profile's access bit, and
\* the edge filter returns true exactly for the usable edges; both depend only
\* on the access mask the profile was built with.
C20_FiltersAgree ==
    /\ C20_EdgeFilterExactly
    /\ ret.op = "GetNodeFilter" =>
          /\ ret.result = AllowedNode(profile, ret.access)
          /\ ret.result <=> initial.access_mask_ \subseteq ret.access

====
